---- MODULE Spec2Model ----
(***************************************************************************)
(* Journey stitching of Donostio/IMWlms, src/update_journey_data.py.       *)
(*                                                                         *)
(* The file holds two generators of live_data.json:                        *)
(*   - TflRailDataHarvester (lines 80-309) with its save_rail_data         *)
(*     (lines 312-330): raw TfL journeys are classified, deduplicated by   *)
(*     departure display time, stitched with the connections of            *)
(*     fetch_clj_connections and capped;                                   *)
(*   - MockRailData (lines 369-521) with its save_rail_data (524-536).     *)
(*                                                                         *)
(* An instant is a number of minutes since 00:00 of day 0 (wall clock,     *)
(* Europe/London).  A display time "HH:MM" is the minute of the day,       *)
(* 0..1439: zero-padded "HH:MM" strings compare as these numbers do.       *)
(* A text "<n> min" is the record [known |-> TRUE, mins |-> n]; the text   *)
(* "Unknown" is [known |-> FALSE, mins |-> 0].                             *)
(* A time field of a raw TfL leg that holds no ISO date-time is a negative *)
(* number: -1 for a missing field (None), -2 for a text that does not      *)
(* parse.  format_time hands such a value back as it is.                   *)
(* Fields that no step reads back are not carried: station names,          *)
(* platform, operator, live_updated_at and the random status of the mock   *)
(* generator's legs.                                                       *)
(*                                                                         *)
(* src/data_fetch.py (fetch_and_save, lines 116-186) is modelled at the    *)
(* end: data.json as the list of snapshots it holds.                       *)
(***************************************************************************)
EXTENDS Integers, Sequences, FiniteSets, TLC

\* ------------------------------------------------------------ configuration

MAX_JOURNEYS_TO_SAVE == 3

\* timedelta(days=1)
MinutesPerDay == 1440

\* for i in range(3) / for j in range(3)
ConnectionCount == 3

\* the longest list of raw journeys drawn as tfl_data['journeys']
MaxRaw == 4

\* random.randint(7, 10), random.randint(4, 6) of fetch_clj_connections
StaggerRange == 7..10
RunRange == 4..6

\* random.randint(30, 35), (10, 15), (4, 7), (4, 6) of find_journeys
MockDirectRange == 30..35
MockLeg1Range == 10..15
MockBaseRange == 4..7
MockLeg2Range == 4..6

\* ------------------------------------------------------------ texts

\* f"{duration_mins} min"
calculate_duration_str(duration_mins) == [known |-> TRUE, mins |-> duration_mins]

\* the literal "Unknown"
Unknown == [known |-> FALSE, mins |-> 0]

\* a field that is absent: leg.get(..) is None
is_none(t) == t = -1

\* datetime.fromisoformat and datetime.strptime(.., '%H:%M') succeed
parses(t) == t >= 0

\* dt.astimezone(LONDON_TIMEZONE).strftime('%H:%M'): the date is dropped;
\* except Exception: return dt_string
format_time(dt) == IF parses(dt) THEN dt % MinutesPerDay ELSE dt

\* london_now.replace(hour=.., minute=.., second=0, microsecond=0) with the
\* hour and minute of datetime.strptime(hhmm, '%H:%M'): london_now's date
replace_time(now, hhmm) == (now \div MinutesPerDay) * MinutesPerDay + hhmm

\* ------------------------------------------------------------ TfL legs

STATION_TO == "IMW"
STATION_VIA == "CLJ"

\* the times compared without asking whether the scheduled one is there
get_status_from_leg_unguarded(leg) ==
    IF leg.isCancelled THEN "Cancelled"
    ELSE IF leg.scheduledDepartureTime /= leg.departureTime THEN "Delayed"
    ELSE "On Time"

get_status_from_leg(leg) ==
    IF leg.isCancelled THEN "Cancelled"
    ELSE IF /\ ~is_none(leg.scheduledDepartureTime)
            /\ ~is_none(leg.departureTime)
            /\ leg.scheduledDepartureTime /= leg.departureTime
         THEN "Delayed"
    ELSE "On Time"

\* leg.get('scheduledDepartureTime') or leg.get('departureTime')
scheduled_or_actual(leg) ==
    IF is_none(leg.scheduledDepartureTime) THEN leg.departureTime ELSE leg.scheduledDepartureTime

map_leg_to_json(leg) ==
    [departure |-> format_time(leg.departureTime),
     scheduled_departure |-> format_time(scheduled_or_actual(leg)),
     arrival |-> format_time(leg.arrivalTime),
     status |-> get_status_from_leg(leg)]

\* ------------------------------------------------------------ connections

\* the base set one minute short of the three the generator adds
clj_dep_base_dt_short(arrival_dt) == arrival_dt + 2

\* clj_dep_base_dt = arrival_dt + timedelta(minutes=3)
clj_dep_base_dt(arrival_dt) == arrival_dt + 3

\* the stagger added once, not i times
connection_dep_dt_unscaled(arrival_dt, i, stagger) == clj_dep_base_dt(arrival_dt) + stagger

\* dep_dt = clj_dep_base_dt + timedelta(minutes=i * random.randint(7, 10))
connection_dep_dt(arrival_dt, i, stagger) == clj_dep_base_dt(arrival_dt) + i * stagger

\* the difference taken on the display times, with no day added
transfer_time_clock(dep_dt, arrival_dt) == format_time(dep_dt) - format_time(arrival_dt)

\* transfer_time = (dep_dt - arrival_dt).total_seconds() / 60, then int(..)
transfer_time(dep_dt, arrival_dt) == dep_dt - arrival_dt

\* 'Cancelled' if (i == 0 and random.random() < 0.3) else 'On Time'
connection_status(i, cancel) == IF i = 0 /\ cancel THEN "Cancelled" ELSE "On Time"

\* one pass of the loop body; i is 0-based as in the code
mock_connection(arrival_dt, i, stagger, run, cancel) ==
    LET dep_dt == connection_dep_dt(arrival_dt, i, stagger)
        arr_dt == dep_dt + run
    IN  [transferTime |-> calculate_duration_str(transfer_time(dep_dt, arrival_dt)),
         second_leg |-> [departure |-> format_time(dep_dt),
                         scheduled_departure |-> format_time(dep_dt),
                         arrival |-> format_time(arr_dt),
                         status |-> connection_status(i, cancel)]]

\* the values random yields during one call: a stagger and a run time per
\* pass, and whether random.random() < 0.3 in the first pass
Draws(staggers, runs) ==
    [stagger : [1..ConnectionCount -> staggers],
     run : [1..ConnectionCount -> runs],
     cancel : BOOLEAN]

fetch_clj_connections(arrival_dt, d) ==
    [k \in 1..ConnectionCount |->
        mock_connection(arrival_dt, k - 1, d.stagger[k], d.run[k], d.cancel)]

\* ------------------------------------------------------------ inputs

LegWith(dep, scheduled, arr, crs, cancelled) ==
    [departureTime |-> dep, scheduledDepartureTime |-> scheduled, arrivalTime |-> arr,
     crsCode |-> crs, isCancelled |-> cancelled]

\* a leg that runs as scheduled
Leg(dep, arr, crs) == LegWith(dep, dep, arr, crs, FALSE)

RawJourney(legs, duration) == [legs |-> legs, duration |-> duration]

\* one leg to the destination, the journey's duration as TfL reports it
RawDirect(dep, duration) == RawJourney(<<Leg(dep, dep + duration, STATION_TO)>>, duration)

\* first leg to the interchange, second leg onward
RawOneChange(dep, leg1) ==
    RawJourney(<<Leg(dep, dep + leg1, STATION_VIA),
                 Leg(dep + leg1 + 8, dep + leg1 + 14, STATION_TO)>>, leg1 + 14)

\* first leg to some other station
RawElsewhere(dep) ==
    RawJourney(<<Leg(dep, dep + 7, "BAL"), Leg(dep + 12, dep + 40, STATION_TO)>>, 40)

RawNoLegs == RawJourney(<<>>, 0)

\* 10:00 and 09:50 direct, 23:40 direct arriving after midnight, 10:00 and
\* 23:45 via the interchange (the latter arriving there at 23:58), 10:00 to
\* another station, and a journey without legs
RawJourneys ==
    {RawDirect(600, 35), RawDirect(590, 35), RawDirect(1420, 35),
     RawOneChange(600, 12), RawOneChange(1425, 13),
     RawElsewhere(600), RawNoLegs}

RECURSIVE SeqsUpTo(_, _)
SeqsUpTo(S, n) ==
    IF n = 0 THEN {<<>>}
    ELSE LET shorter == SeqsUpTo(S, n - 1)
         IN  shorter \cup {Append(q, x) : q \in {r \in shorter : Len(r) = n - 1}, x \in S}

\* tfl_data['journeys'] of a whole run
RawLists == SeqsUpTo(RawJourneys, MaxRaw)

\* first legs reaching the interchange around midnight and at midday
WideOneChanges ==
    {RawOneChange(arr - leg1, leg1) : arr \in {612, 1417, 1426, 1433, 1436, 1438, 1439}, leg1 \in {12, 13}}

\* raw journeys of other shapes: a time that is missing or does not parse,
\* a first leg that is late, cancelled or without a scheduled time, a single
\* leg to the interchange, and two legs of which the first reaches the
\* destination
OddJourneys ==
    {RawJourney(<<LegWith(-2, -2, 635, STATION_TO, FALSE)>>, 35),
     RawJourney(<<LegWith(600, 600, -1, STATION_VIA, FALSE), Leg(620, 626, STATION_TO)>>, 26),
     RawJourney(<<LegWith(-1, 605, 617, STATION_VIA, FALSE), Leg(625, 631, STATION_TO)>>, 26),
     RawJourney(<<LegWith(604, 600, 639, STATION_TO, FALSE)>>, 35),
     RawJourney(<<LegWith(612, 610, 645, STATION_TO, TRUE)>>, 35),
     RawJourney(<<LegWith(620, -1, 632, STATION_VIA, FALSE)>>, 12),
     RawJourney(<<Leg(630, 665, STATION_TO), Leg(670, 680, "WBP")>>, 50),
     RawDirect(590, 35)}

\* the longest list drawn from OddJourneys
MaxOdd == 3

OddLists == SeqsUpTo(OddJourneys, MaxOdd)

\* runs of one raw journey each, and three runs that reach the cap, a
\* duplicate and the end of a longer list
SingleLists ==
    {<<r>> : r \in RawJourneys \cup WideOneChanges}
    \cup {<<r>> : r \in OddJourneys}
    \cup {<<RawDirect(600, 35), RawDirect(590, 35), RawDirect(1420, 35), RawOneChange(1425, 13)>>,
          <<RawDirect(600, 35), RawOneChange(600, 12)>>,
          <<RawElsewhere(600), RawDirect(600, 35), RawNoLegs>>}

\* datetime.now(LONDON_TIMEZONE), to the minute: 09:45 and 23:25
Nows == {585, 1405}

\* the draws at the ends of both ranges, the same in every pass
CornerDraws ==
    {d \in Draws({7, 10}, {4, 6}) :
        \A k \in 1..ConnectionCount : d.stagger[k] = d.stagger[1] /\ d.run[k] = d.run[1]}

EveryDraw == Draws(StaggerRange, RunRange)

\* a departure board that is not the generator's: any one to three trains
\* leaving the interchange after the arrival, each running or cancelled
BoardTrain(arrival_dt) ==
    {[transferTime |-> calculate_duration_str(transfer_time(arrival_dt + off, arrival_dt)),
      second_leg |-> [departure |-> format_time(arrival_dt + off),
                      scheduled_departure |-> format_time(arrival_dt + off),
                      arrival |-> format_time(arrival_dt + off + run),
                      status |-> st]] :
        off \in {3, 11}, run \in {4, 6}, st \in {"On Time", "Cancelled"}}

AnyBoard(arrival_dt) == SeqsUpTo(BoardTrain(arrival_dt), ConnectionCount) \ {<<>>}

\* what self.fetch_clj_connections(clj_arr_dt) may return
BoardLookup(board, arrival_dt) ==
    CASE board = "corner" -> {fetch_clj_connections(arrival_dt, d) : d \in CornerDraws}
      [] board = "every" -> {fetch_clj_connections(arrival_dt, d) : d \in EveryDraw}
      [] board = "any" -> AnyBoard(arrival_dt)

\* ------------------------------------------------------------ state

VARIABLES
    harvester,             \* "TflRailDataHarvester", "MockRailData" or "data_fetch"
    pc,                    \* position in save_rail_data; "raised" once an exception left it
    london_now,            \* self.london_now
    tfl_data,              \* tfl_data['journeys']
    idx,                   \* 1-based position of the for loop
    processed_departures,  \* the local set of process_tfl_journeys
    journeys,              \* self.journeys
    segment_id_counter,    \* self.segment_id_counter
    src_departures,        \* the result of find_next_departures
    saved,                 \* data_to_save, as written to live_data.json
    fetched,               \* what fetch_tfl_journeys returned: "none", "no_journeys" or "journeys"
    wanted,                \* how many departures find_next_departures is asked for
    data_file              \* data.json of data_fetch.py

vars == <<harvester, pc, london_now, tfl_data, idx, processed_departures,
          journeys, segment_id_counter, src_departures, saved, fetched, wanted, data_file>>

\* __init__ of either class, and the fetched data handed to the harvester
InitWith(lists) ==
    /\ harvester \in {"TflRailDataHarvester", "MockRailData"}
    /\ london_now \in Nows
    /\ fetched \in (IF harvester = "TflRailDataHarvester"
                    THEN {"none", "no_journeys", "journeys"} ELSE {"none"})
    /\ tfl_data \in (IF fetched = "journeys" THEN lists ELSE {<<>>})
    /\ pc = IF harvester = "TflRailDataHarvester" THEN "process" ELSE "find_departures"
    /\ idx = 1
    /\ processed_departures = {}
    /\ journeys = <<>>
    /\ segment_id_counter = 1
    /\ src_departures = <<>>
    /\ saved = <<>>
    /\ wanted = MAX_JOURNEYS_TO_SAVE
    /\ data_file = [kind |-> "missing", snapshots |-> <<>>]

Init == InitWith(RawLists \cup OddLists)

InitSingle == InitWith(SingleLists)

\* ------------------------------------------------------------ process_tfl_journeys

\* save_rail_data: if tfl_data; process_tfl_journeys:
\* if not tfl_data or not tfl_data.get('journeys'): return
returns_early == fetched /= "journeys" \/ tfl_data = <<>>

InLoop ==
    /\ harvester = "TflRailDataHarvester"
    /\ pc = "process"
    /\ ~returns_early
    /\ idx <= Len(tfl_data)

raw_journey == tfl_data[idx]

leg1 == raw_journey.legs[1]

dep_time == format_time(leg1.departureTime)

Skip == UNCHANGED <<journeys, segment_id_counter>>

Frame == UNCHANGED <<harvester, london_now, tfl_data, src_departures, saved, fetched, wanted, data_file>>

\* nothing was fetched, or nothing is in it: the loop is not entered
ProcessNothing ==
    /\ harvester = "TflRailDataHarvester"
    /\ pc = "process"
    /\ returns_early
    /\ pc' = "done"
    /\ UNCHANGED <<idx, processed_departures>>
    /\ Skip /\ Frame

\* the for loop runs out of raw journeys
ProcessEnd ==
    /\ harvester = "TflRailDataHarvester"
    /\ pc = "process"
    /\ ~returns_early
    /\ idx > Len(tfl_data)
    /\ pc' = "done"
    /\ UNCHANGED <<idx, processed_departures>>
    /\ Skip /\ Frame

\* the comparison written with > for >=
cap_reached_late(n) == n > MAX_JOURNEYS_TO_SAVE

\* if len(self.journeys) >= MAX_JOURNEYS_TO_SAVE: break
cap_reached(n) == n >= MAX_JOURNEYS_TO_SAVE

ProcessBreak ==
    /\ InLoop
    /\ cap_reached(Len(journeys))
    /\ pc' = "done"
    /\ UNCHANGED <<idx, processed_departures>>
    /\ Skip /\ Frame

\* if not legs: continue
ProcessNoLegs ==
    /\ InLoop
    /\ ~cap_reached(Len(journeys))
    /\ raw_journey.legs = <<>>
    /\ idx' = idx + 1
    /\ UNCHANGED <<pc, processed_departures>>
    /\ Skip /\ Frame

\* if dep_time in processed_departures: continue
already_processed(t, processed) == t \in processed

ProcessDuplicate ==
    /\ InLoop
    /\ ~cap_reached(Len(journeys))
    /\ raw_journey.legs /= <<>>
    /\ already_processed(dep_time, processed_departures)
    /\ idx' = idx + 1
    /\ UNCHANGED <<pc, processed_departures>>
    /\ Skip /\ Frame

\* the guard shared by the three branches that follow processed_departures.add
Fresh ==
    /\ InLoop
    /\ ~cap_reached(Len(journeys))
    /\ raw_journey.legs /= <<>>
    /\ ~already_processed(dep_time, processed_departures)

\* the first leg alone decides, however many legs follow
is_direct_any_length(legs) == legs[1].crsCode = STATION_TO

is_direct(legs) == Len(legs) = 1 /\ legs[1].crsCode = STATION_TO

\* any first leg that stops short of the destination
is_one_change_elsewhere(legs) == legs[1].crsCode /= STATION_TO

is_one_change(legs) == ~is_direct(legs) /\ legs[1].crsCode = STATION_VIA

direct_journey(raw, id) ==
    LET first_leg == map_leg_to_json(raw.legs[1])
    IN  [type |-> "Direct",
         first_leg |-> first_leg,
         connections |-> <<>>,
         totalDuration |-> calculate_duration_str(raw.duration),
         arrivalTime |-> first_leg.arrival,
         departureTime |-> first_leg.departure,
         segment_id |-> id]

\* the increment left out
next_segment_id_stuck(counter) == counter

\* self.segment_id_counter += 1
next_segment_id(counter) == counter + 1

ProcessDirect ==
    /\ Fresh
    /\ is_direct(raw_journey.legs)
    /\ processed_departures' = processed_departures \cup {dep_time}
    /\ journeys' = Append(journeys, direct_journey(raw_journey, segment_id_counter))
    /\ segment_id_counter' = next_segment_id(segment_id_counter)
    /\ idx' = idx + 1
    /\ UNCHANGED pc
    /\ Frame

\* the status not looked at: always the first entry
valid_connection_first(connections) == 1

\* the last connection that runs, not the first
valid_connection_last(connections) ==
    LET running == {k \in 1..Len(connections) : connections[k].second_leg.status /= "Cancelled"}
    IN  IF running = {} THEN 0 ELSE CHOOSE k \in running : \A m \in running : k >= m

\* next((conn for conn in connections if status != 'Cancelled'), None): its
\* position, 0 for None
valid_connection(connections) ==
    LET running == {k \in 1..Len(connections) : connections[k].second_leg.status /= "Cancelled"}
    IN  IF running = {} THEN 0 ELSE CHOOSE k \in running : \A m \in running : k <= m

\* lines 281-290: both instants on london_now's date, a day added when the
\* arrival falls before the departure
total_duration(now, departure, arrival) ==
    LET dep_dt_full == replace_time(now, departure)
        arr_dt_same == replace_time(dep_dt_full, arrival)
        arr_dt_full == IF arr_dt_same < dep_dt_full THEN arr_dt_same + MinutesPerDay ELSE arr_dt_same
    IN  arr_dt_full - dep_dt_full

one_change_journey(raw, connections, now, id) ==
    LET first_leg == map_leg_to_json(raw.legs[1])
        v == valid_connection(connections)
        final_arrival_time_str ==
            IF v /= 0 THEN connections[v].second_leg.arrival
            ELSE connections[1].second_leg.arrival
        total_duration_str ==
            IF v /= 0
            THEN calculate_duration_str(total_duration(now, first_leg.departure, final_arrival_time_str))
            ELSE Unknown
    IN  [type |-> "One Change",
         first_leg |-> first_leg,
         connections |-> connections,
         totalDuration |-> total_duration_str,
         arrivalTime |-> final_arrival_time_str,
         departureTime |-> first_leg.departure,
         segment_id |-> id]

\* line 267 on the arrival at the interchange; lines 281 and 284, reached
\* when a connection runs, on the departure and on that connection's arrival
strptime_raises(first_leg, connections) ==
    \/ ~parses(first_leg.arrival)
    \/ /\ valid_connection(connections) /= 0
       /\ ~parses(first_leg.departure)

ProcessOneChange(board) ==
    /\ Fresh
    /\ is_one_change(raw_journey.legs)
    /\ processed_departures' = processed_departures \cup {dep_time}
    /\ parses(map_leg_to_json(leg1).arrival)
    /\ LET clj_arr_dt == replace_time(london_now, map_leg_to_json(leg1).arrival)
       IN  \E connections \in BoardLookup(board, clj_arr_dt) :
               /\ ~strptime_raises(map_leg_to_json(leg1), connections)
               /\ journeys' = Append(journeys,
                      one_change_journey(raw_journey, connections, london_now, segment_id_counter))
    /\ segment_id_counter' = next_segment_id(segment_id_counter)
    /\ idx' = idx + 1
    /\ UNCHANGED pc
    /\ Frame

\* datetime.strptime raises ValueError (TypeError for None) and nothing
\* catches it: process_tfl_journeys and save_rail_data end there
ProcessRaise(board) ==
    /\ Fresh
    /\ is_one_change(raw_journey.legs)
    /\ processed_departures' = processed_departures \cup {dep_time}
    /\ IF parses(map_leg_to_json(leg1).arrival)
       THEN \E connections \in
                   BoardLookup(board, replace_time(london_now, map_leg_to_json(leg1).arrival)) :
                strptime_raises(map_leg_to_json(leg1), connections)
       ELSE TRUE
    /\ pc' = "raised"
    /\ UNCHANGED idx
    /\ Skip /\ Frame

\* neither branch is taken: only processed_departures has changed
ProcessOther ==
    /\ Fresh
    /\ ~is_direct(raw_journey.legs)
    /\ ~is_one_change(raw_journey.legs)
    /\ processed_departures' = processed_departures \cup {dep_time}
    /\ idx' = idx + 1
    /\ UNCHANGED pc
    /\ Skip /\ Frame

\* data_to_save = harvester.journeys[:MAX_JOURNEYS_TO_SAVE]; json.dump
data_to_save(js) ==
    SubSeq(js, 1, IF Len(js) < MAX_JOURNEYS_TO_SAVE THEN Len(js) ELSE MAX_JOURNEYS_TO_SAVE)

Save ==
    /\ pc = "done"
    /\ saved' = data_to_save(journeys)
    /\ pc' = "saved"
    /\ UNCHANGED <<harvester, london_now, tfl_data, idx, processed_departures,
                   journeys, segment_id_counter, src_departures, fetched, wanted, data_file>>

\* ------------------------------------------------------------ MockRailData

\* dt.strftime('%H:%M')
mock_format_time(dt) == dt % MinutesPerDay

\* calculate_duration_str(start_time, end_time) of the mock generator
mock_calculate_duration_str(start_time, end_time) ==
    LET end == IF end_time < start_time THEN end_time + MinutesPerDay ELSE end_time
    IN  [known |-> TRUE, mins |-> end - start_time]

\* int(text.split(' ')[0])
parse_minutes(text) == text.mins

generate_mock_leg(departure_dt, duration_mins) ==
    [departure |-> mock_format_time(departure_dt),
     scheduled_departure |-> mock_format_time(departure_dt),
     arrival |-> mock_format_time(departure_dt + duration_mins)]

SIMULATED_FREQUENCY_MINS == 10

\* a time already on a slot is taken as the first departure
find_next_departures_on_slot(now, count) ==
    LET current_dt == now + 1
        target_minute_remainder == (current_dt % 60) % SIMULATED_FREQUENCY_MINS
        time_to_next_slot ==
            IF target_minute_remainder = 0 THEN 0
            ELSE SIMULATED_FREQUENCY_MINS - target_minute_remainder
    IN  [k \in 1..count |-> current_dt + time_to_next_slot + (k - 1) * SIMULATED_FREQUENCY_MINS]

find_next_departures(now, count) ==
    LET current_dt == now + 1
        target_minute_remainder == (current_dt % 60) % SIMULATED_FREQUENCY_MINS
        time_to_next_slot ==
            IF target_minute_remainder = 0 THEN SIMULATED_FREQUENCY_MINS
            ELSE SIMULATED_FREQUENCY_MINS - target_minute_remainder
    IN  [k \in 1..count |-> current_dt + time_to_next_slot + (k - 1) * SIMULATED_FREQUENCY_MINS]

MockFindDepartures ==
    /\ harvester = "MockRailData"
    /\ pc = "find_departures"
    /\ src_departures' = find_next_departures(london_now, wanted)
    /\ pc' = "find_journeys"
    /\ UNCHANGED <<harvester, london_now, tfl_data, idx, processed_departures,
                   journeys, segment_id_counter, saved, fetched, wanted, data_file>>

MockLoop ==
    /\ harvester = "MockRailData"
    /\ pc = "find_journeys"
    /\ idx <= Len(src_departures)

src_dep_dt == src_departures[idx]

\* what every pass of the loop ends with: the counter, the next slot, and
\* the break once MAX_JOURNEYS_TO_SAVE journeys are held
MockAdvance ==
    /\ segment_id_counter' = next_segment_id(segment_id_counter)
    /\ idx' = idx + 1
    /\ pc' = IF cap_reached(Len(journeys')) \/ idx' > Len(src_departures) THEN "done" ELSE pc
    /\ UNCHANGED <<harvester, london_now, tfl_data, processed_departures, src_departures, saved,
                   fetched, wanted, data_file>>

mock_direct_journey(dep_dt, total_duration_mins, id) ==
    LET first_leg == generate_mock_leg(dep_dt, total_duration_mins)
    IN  [type |-> "Direct",
         first_leg |-> first_leg,
         connections |-> <<>>,
         totalDuration |-> mock_calculate_duration_str(dep_dt, dep_dt + total_duration_mins),
         arrivalTime |-> first_leg.arrival,
         departureTime |-> first_leg.departure,
         segment_id |-> id]

MockDirect ==
    /\ MockLoop
    /\ (idx - 1) % 2 = 0
    /\ \E total_duration_mins \in MockDirectRange :
           journeys' = Append(journeys,
               mock_direct_journey(src_dep_dt, total_duration_mins, segment_id_counter))
    /\ MockAdvance

\* lines 476-490: clj_dep_dt = clj_departure_base + j * 7, j 0-based
mock_connections(clj_arr_dt, clj_departure_base, runs) ==
    [k \in 1..ConnectionCount |->
        LET clj_dep_dt == clj_departure_base + (k - 1) * 7
        IN  [transferTime |-> mock_calculate_duration_str(clj_arr_dt, clj_dep_dt),
             second_leg |-> generate_mock_leg(clj_dep_dt, runs[k])]]

\* lines 496-501: duration_leg2 is the variable the loop left behind
mock_total_duration_str(dep_dt, duration_leg1, connections, runs) ==
    LET duration_leg2 == runs[ConnectionCount]
    IN  mock_calculate_duration_str(dep_dt,
            dep_dt + duration_leg1 + parse_minutes(connections[1].transferTime) + duration_leg2)

mock_one_change_journey(dep_dt, duration_leg1, base, runs, id) ==
    LET clj_arr_dt == dep_dt + duration_leg1
        first_leg == generate_mock_leg(dep_dt, duration_leg1)
        connections == mock_connections(clj_arr_dt, clj_arr_dt + base, runs)
    IN  [type |-> "One Change",
         first_leg |-> first_leg,
         connections |-> connections,
         totalDuration |-> mock_total_duration_str(dep_dt, duration_leg1, connections, runs),
         arrivalTime |-> connections[1].second_leg.arrival,
         departureTime |-> first_leg.departure,
         segment_id |-> id]

MockOneChange ==
    /\ MockLoop
    /\ (idx - 1) % 2 /= 0
    /\ \E duration_leg1 \in MockLeg1Range, base \in MockBaseRange,
          runs \in [1..ConnectionCount -> MockLeg2Range] :
           journeys' = Append(journeys,
               mock_one_change_journey(src_dep_dt, duration_leg1, base, runs, segment_id_counter))
    /\ MockAdvance

\* ------------------------------------------------------------ data_fetch.py

\* datetime.now().isoformat() of two invocations
Timestamps == {"2024-01-01T10:00:00", "2024-01-01T10:15:00"}

\* parse_xml_to_json: one service of the departure board
service(std, etd) ==
    [scheduledDepartureTime |-> std,
     estimatedDepartureTime |-> etd,
     delayStatus |-> IF etd \in {"On time", std} THEN "On Time"
                     ELSE IF etd = "Delayed" THEN "Delayed" ELSE etd]

\* the boards a fetch can bring: no service, one, two
ServiceLists ==
    {<<>>,
     <<service("10:00", "On time")>>,
     <<service("10:00", "10:04"), service("10:10", "Delayed")>>}

\* str(e) of a failed request and of a SOAP fault
ErrorMessages == {"timeout", "API Fault: Unknown Fault"}

success_snapshot(timestamp, services_data) ==
    [timestamp |-> timestamp,
     status |-> "Success",
     services |-> services_data,
     serviceCount |-> Len(services_data)]

error_snapshot(timestamp, e) ==
    [timestamp |-> timestamp,
     status |-> "Error",
     errorMessage |-> e,
     services |-> <<>>,
     serviceCount |-> 0]

\* what data.json can hold: nothing (or be missing), text that is not JSON,
\* JSON that is not a list, or a list of snapshots
FileKinds == {"missing", "empty", "invalid", "object", "list"}

\* the history is dropped whatever the file holds
load_existing_fresh(file) == <<>>

\* data = [] unless the file exists, is not empty, parses and is a list
load_existing(file) == IF file.kind = "list" THEN file.snapshots ELSE <<>>

\* the longest history a run is followed to
MaxSnapshots == 3

\* data.append(snapshot); json.dump(data, f, indent=2)
written(snapshot) ==
    [kind |-> "list", snapshots |-> Append(load_existing(data_file), snapshot)]

\* one invocation of the script; the history is followed to MaxSnapshots
Invoked ==
    /\ harvester = "data_fetch"
    /\ Len(load_existing(data_file)) < MaxSnapshots

FetchFrame ==
    UNCHANGED <<harvester, pc, london_now, fetched, tfl_data, idx, processed_departures,
                journeys, segment_id_counter, src_departures, saved, wanted>>

\* fetch_and_save when the request and the parsing succeed
FetchSuccess ==
    /\ Invoked
    /\ \E timestamp \in Timestamps, services_data \in ServiceLists :
           data_file' = written(success_snapshot(timestamp, services_data))
    /\ FetchFrame

\* fetch_and_save when the request, the parsing or a SOAP fault raises
FetchFailure ==
    /\ Invoked
    /\ \E timestamp \in Timestamps, e \in ErrorMessages :
           data_file' = written(error_snapshot(timestamp, e))
    /\ FetchFrame

\* ------------------------------------------------------------ specifications

Next(board) ==
    \/ ProcessEnd
    \/ ProcessBreak
    \/ ProcessNoLegs
    \/ ProcessDuplicate
    \/ ProcessDirect
    \/ ProcessOneChange(board)
    \/ ProcessRaise(board)
    \/ ProcessNothing
    \/ ProcessOther
    \/ MockFindDepartures
    \/ MockDirect
    \/ MockOneChange
    \/ Save

\* whole runs over every list of raw journeys, the generator's draws taken
\* at the ends of their ranges
Spec == Init /\ [][Next("corner")]_vars

\* runs with every draw the generator can make
SpecDraws == InitSingle /\ [][Next("every")]_vars

\* runs in which the departure board is any board
SpecStitch == InitSingle /\ [][Next("any")]_vars

\* the most departures find_next_departures is asked for
MaxCount == 4

\* find_next_departures at every minute of a day, asked for 0..MaxCount
\* departures
InitClock ==
    /\ harvester = "MockRailData"
    /\ london_now \in 0..(MinutesPerDay - 1)
    /\ wanted \in 0..MaxCount
    /\ fetched = "none"
    /\ tfl_data = <<>>
    /\ pc = "find_departures"
    /\ idx = 1
    /\ processed_departures = {}
    /\ journeys = <<>>
    /\ segment_id_counter = 1
    /\ src_departures = <<>>
    /\ saved = <<>>
    /\ data_file = [kind |-> "missing", snapshots |-> <<>>]

SpecClock == InitClock /\ [][MockFindDepartures]_vars

\* data_fetch.py run again and again on whatever data.json holds at first
InitFetch ==
    /\ harvester = "data_fetch"
    /\ data_file \in [kind : FileKinds, snapshots : {<<>>}]
    /\ pc = "fetch_and_save"
    /\ london_now = 0
    /\ wanted = 0
    /\ fetched = "none"
    /\ tfl_data = <<>>
    /\ idx = 1
    /\ processed_departures = {}
    /\ journeys = <<>>
    /\ segment_id_counter = 1
    /\ src_departures = <<>>
    /\ saved = <<>>

NextFetch == FetchSuccess \/ FetchFailure

SpecFetch == InitFetch /\ [][NextFetch]_vars

\* ------------------------------------------------------------ properties

\* the configured minimum transfer, in minutes
MinTransferMinutes == 3

\* minutes from one display time to the next occurrence of another: a day is
\* added when the second clock time is the earlier one
ClockMinutesBetween(from, to) == IF to < from THEN to + MinutesPerDay - from ELSE to - from

Held == {journeys[k] : k \in 1..Len(journeys)}

Written == {saved[k] : k \in 1..Len(saved)}

Output == Held \cup Written

OneChangeOutput == {j \in Output : j.type = "One Change"}

Finished == pc \in {"done", "saved"}

\* C1: in every One Change journey of either generator, every connection
\* leaves the interchange at least MinTransferMinutes after the first leg
\* arrives there, the difference taken on the display times with the one-day
\* correction.
C1_MinimumTransfer ==
    \A j \in OneChangeOutput :
        \A k \in 1..Len(j.connections) :
            ClockMinutesBetween(j.first_leg.arrival, j.connections[k].second_leg.departure)
                >= MinTransferMinutes

\* a saved TfL journey arriving at the interchange at 23:58 whose first
\* connection leaves at 00:01, exactly the minimum later
C1_Witness ==
    \E j \in {w \in Written : w.type = "One Change"} :
        /\ harvester = "TflRailDataHarvester"
        /\ j.first_leg.arrival = 1438
        /\ j.connections[1].second_leg.departure = 1
        /\ ClockMinutesBetween(1438, 1) = MinTransferMinutes

\* C2: neither the list the harvester holds nor the list written ever has
\* more than MAX_JOURNEYS_TO_SAVE journeys, for both generators.
C2_AtMostMaxJourneys ==
    /\ Len(journeys) <= MAX_JOURNEYS_TO_SAVE
    /\ Len(saved) <= MAX_JOURNEYS_TO_SAVE

\* a TfL run that stopped at the cap with a raw journey still to come
C2_Witness ==
    /\ harvester = "TflRailDataHarvester"
    /\ pc = "saved"
    /\ idx <= Len(tfl_data)
    /\ Len(saved) = MAX_JOURNEYS_TO_SAVE

\* C3: the saved journeys are in ascending order of departureTime.
C3_SortedByDeparture ==
    \A k \in 1..Len(saved) - 1 : saved[k].departureTime <= saved[k + 1].departureTime

\* C4: the identifiers of the journeys held and written are 1..N in order,
\* and the counter is always the number of journeys emitted plus one.
C4_SequentialIds ==
    /\ \A k \in 1..Len(journeys) : journeys[k].segment_id = k
    /\ \A k \in 1..Len(saved) : saved[k].segment_id = k
    /\ segment_id_counter = Len(journeys) + 1

\* a finished TfL run that emitted two journeys or more and skipped a raw
\* journey before the last one it emitted
C4_Witness ==
    /\ harvester = "TflRailDataHarvester"
    /\ pc = "saved"
    /\ Len(saved) >= 2
    /\ \E f \in 1..Len(tfl_data) :
           /\ tfl_data[f].legs /= <<>>
           /\ ~is_direct(tfl_data[f].legs) /\ ~is_one_change(tfl_data[f].legs)
           /\ \E g \in (f + 1)..Len(tfl_data) :
                  /\ tfl_data[g].legs /= <<>>
                  /\ format_time(tfl_data[g].legs[1].departureTime) = saved[Len(saved)].departureTime

Qualifies(raw) == raw.legs /= <<>> /\ (is_direct(raw.legs) \/ is_one_change(raw.legs))

DepartureOf(raw) == format_time(raw.legs[1].departureTime)

\* the first raw journey, in input order, that qualifies and departs at its time
FirstQualifying(f) ==
    /\ Qualifies(tfl_data[f])
    /\ \A e \in 1..(f - 1) :
           Qualifies(tfl_data[e]) => DepartureOf(tfl_data[e]) /= DepartureOf(tfl_data[f])

BuiltFrom(j, raw) ==
    /\ j.type = (IF is_direct(raw.legs) THEN "Direct" ELSE "One Change")
    /\ j.first_leg = map_leg_to_json(raw.legs[1])

\* another qualifying raw journey departs at the same display time
SharesDeparture(f) ==
    \E g \in 1..Len(tfl_data) :
        g /= f /\ Qualifies(tfl_data[g]) /\ DepartureOf(tfl_data[g]) = DepartureOf(tfl_data[f])

\* C5: no two output journeys share a departureTime, and once the loop has
\* ended, every departure time that several qualifying raw journeys share,
\* and that the loop came to before the cap, has its output journey, built
\* from the first of them in input order.
C5_FirstProcessedWins ==
    (harvester = "TflRailDataHarvester" /\ Finished) =>
        /\ \A a, b \in 1..Len(journeys) :
               a /= b => journeys[a].departureTime /= journeys[b].departureTime
        /\ \A f \in 1..Len(tfl_data) :
               (f < idx /\ FirstQualifying(f) /\ SharesDeparture(f)) =>
                   \E k \in 1..Len(journeys) :
                       /\ journeys[k].departureTime = DepartureOf(tfl_data[f])
                       /\ BuiltFrom(journeys[k], tfl_data[f])

\* C6: the published transferTime of every connection is the number of
\* minutes from the first leg's arrival to the second leg's departure, the
\* day boundary corrected, and is never negative.
C6_TransferTimeWraps ==
    \A j \in OneChangeOutput :
        \A k \in 1..Len(j.connections) :
            LET c == j.connections[k]
            IN  /\ c.transferTime.known
                /\ c.transferTime.mins >= 0
                /\ c.transferTime.mins =
                       ClockMinutesBetween(j.first_leg.arrival, c.second_leg.departure)

\* a connection that leaves after midnight, five minutes after an arrival
\* before midnight
C6_Witness ==
    \E j \in OneChangeOutput :
        \E k \in 1..Len(j.connections) :
            /\ j.connections[k].second_leg.departure < j.first_leg.arrival
            /\ j.connections[k].transferTime.mins = 5

TflOneChange == {j \in OneChangeOutput : harvester = "TflRailDataHarvester"}

MockOneChangeOutput == {j \in OneChangeOutput : harvester = "MockRailData"}

Running(connections) ==
    {k \in 1..Len(connections) : connections[k].second_leg.status /= "Cancelled"}

\* the earliest connection that is not Cancelled; the first when all are
Displayed(connections) ==
    IF Running(connections) = {} THEN 1
    ELSE CHOOSE k \in Running(connections) : \A m \in Running(connections) : k <= m

C8_DurationIsArrivalMinusDeparture ==
    \A j \in Output :
        j.totalDuration.known =>
            /\ j.totalDuration.mins = ClockMinutesBetween(j.departureTime, j.arrivalTime)
            /\ j.totalDuration.mins \in 0..(MinutesPerDay - 1)

\* C9: every journey has its one first leg, from which its departureTime is
\* taken; a Direct journey has no connections; a One Change journey has at
\* least one, in ascending order of the instant the second leg departs,
\* counted from the first leg's arrival.
C9_JourneyShape ==
    \A j \in Output :
        /\ j.type \in {"Direct", "One Change"}
        /\ j.first_leg.departure = j.departureTime
        /\ j.type = "Direct" => j.connections = <<>>
        /\ j.type = "One Change" =>
               /\ Len(j.connections) >= 1
               /\ \A k \in 1..Len(j.connections) - 1 :
                      ClockMinutesBetween(j.first_leg.arrival, j.connections[k].second_leg.departure)
                          <= ClockMinutesBetween(j.first_leg.arrival, j.connections[k + 1].second_leg.departure)

\* a TfL journey whose connections leave before and after midnight, with the
\* shortest second stagger after the longest first
C9_Witness ==
    \E j \in TflOneChange :
        /\ j.connections[2].second_leg.departure > j.connections[3].second_leg.departure
        /\ j.connections[2].transferTime.mins = 13
        /\ j.connections[3].transferTime.mins = 17

C11_MalformedSkipped ==
    harvester = "TflRailDataHarvester" =>
        /\ pc /= "raised"
        /\ \A j \in Output :
               /\ parses(j.departureTime)
               /\ parses(j.arrivalTime)
               /\ parses(j.first_leg.departure)
               /\ parses(j.first_leg.arrival)

\* a raw journey that is neither a single leg to the destination nor a
\* first leg to the interchange
Inadmissible(raw) ==
    \/ raw.legs = <<>>
    \/ raw.legs[1].crsCode \notin {"IMW", "CLJ"}
    \/ raw.legs[1].crsCode = "IMW" /\ Len(raw.legs) > 1

NothingAdmissible ==
    /\ harvester = "TflRailDataHarvester"
    /\ \/ fetched \in {"none", "no_journeys"}
       \/ \A f \in 1..Len(tfl_data) : Inadmissible(tfl_data[f])

\* C12: when nothing was fetched, the fetched data has no journeys key or
\* an empty journeys list, or no raw journey is admissible, the run raises
\* nothing, holds no journey, can always take its next step until the file
\* is written, and writes the empty list.
C12_EmptyResultIsNormal ==
    NothingAdmissible =>
        /\ pc /= "raised"
        /\ journeys = <<>>
        /\ saved = <<>>
        /\ pc /= "saved" => ENABLED Next("corner")

\* the empty list written after a run over raw journeys none of which is
\* admissible
C12_Witness ==
    /\ NothingAdmissible
    /\ fetched = "journeys"
    /\ Len(tfl_data) >= 2
    /\ pc = "saved"
    /\ saved = <<>>

\* the journeys the One Change branch can append for the raw journey the
\* loop is at, one for every outcome of the draws of fetch_clj_connections
NextOneChangeJourneys ==
    {one_change_journey(raw_journey, connections, london_now, segment_id_counter) :
        connections \in BoardLookup("every",
                           replace_time(london_now, map_leg_to_json(leg1).arrival))}

\* C13 as stated: the stitching is a function of the raw journeys and the
\* reference time: for the raw journey the loop is at, with the journeys
\* held so far, there is one journey the One Change branch can append
\* (one list of connections, one arrivalTime, one totalDuration).
C13_Deterministic ==
    (/\ Fresh
     /\ is_one_change(raw_journey.legs)
     /\ parses(map_leg_to_json(leg1).arrival)
     /\ parses(map_leg_to_json(leg1).departure))
        => Cardinality(NextOneChangeJourneys) <= 1

\* C14: a pass of the loop over a raw journey appends at most one journey;
\* it is Direct only for exactly one leg arriving at IMW and One Change only
\* for a first leg arriving at CLJ; a raw journey with no legs, a first leg
\* arriving elsewhere, or several legs of which the first arrives at IMW,
\* leaves journeys and segment_id_counter as they were.
C14_Classification ==
    [][(harvester = "TflRailDataHarvester" /\ pc = "process" /\ idx <= Len(tfl_data)) =>
          LET legs == tfl_data[idx].legs
          IN  /\ journeys' /= journeys =>
                     /\ Len(journeys') = Len(journeys) + 1
                     /\ SubSeq(journeys', 1, Len(journeys)) = journeys
                     /\ LET new == journeys'[Len(journeys')]
                        IN  /\ new.type \in {"Direct", "One Change"}
                            /\ new.type = "Direct" =>
                                   Len(legs) = 1 /\ legs[1].crsCode = "IMW"
                            /\ new.type = "One Change" =>
                                   legs /= <<>> /\ legs[1].crsCode = "CLJ"
              /\ Inadmissible(tfl_data[idx]) =>
                     journeys' = journeys /\ segment_id_counter' = segment_id_counter
      ]_vars

\* the loop has passed two legs of which the first arrives at IMW, and a
\* single leg to IMW: one Direct journey is held and one id is used
C14_Witness ==
    /\ harvester = "TflRailDataHarvester"
    /\ \E f \in 1..(idx - 1) :
           Len(tfl_data[f].legs) > 1 /\ tfl_data[f].legs[1].crsCode = "IMW"
    /\ \E f \in 1..(idx - 1) :
           Len(tfl_data[f].legs) = 1 /\ tfl_data[f].legs[1].crsCode = "IMW"
    /\ Len(journeys) = 1
    /\ journeys[1].type = "Direct"
    /\ segment_id_counter = 2

\* the rule of C15, on the fields of a raw leg
StatusRule(leg) ==
    CASE leg.isCancelled -> "Cancelled"
      [] /\ ~leg.isCancelled
         /\ leg.scheduledDepartureTime /= -1
         /\ leg.departureTime /= -1
         /\ leg.scheduledDepartureTime /= leg.departureTime -> "Delayed"
      [] OTHER -> "On Time"

\* C15: the status of the first leg of every journey process_tfl_journeys
\* appends is Cancelled when the raw leg is flagged cancelled, whatever its
\* times; otherwise Delayed exactly when a scheduled and an actual departure
\* time are both present and differ; otherwise On Time.
C15_StatusRule ==
    [][(harvester = "TflRailDataHarvester" /\ pc = "process" /\ journeys' /= journeys) =>
          LET new == journeys'[Len(journeys')]
          IN  /\ new.first_leg.status \in {"Cancelled", "Delayed", "On Time"}
              /\ new.first_leg.status = StatusRule(tfl_data[idx].legs[1])
      ]_vars

\* journeys held from a late leg, a cancelled leg whose times differ, and a
\* leg without a scheduled time
C15_Witness ==
    /\ harvester = "TflRailDataHarvester"
    /\ Len(journeys) = 3
    /\ \E f \in 1..Len(tfl_data) :
           tfl_data[f].legs /= <<>> /\ tfl_data[f].legs[1].scheduledDepartureTime = -1
    /\ \E f \in 1..Len(tfl_data) :
           /\ tfl_data[f].legs /= <<>> /\ tfl_data[f].legs[1].isCancelled
           /\ tfl_data[f].legs[1].scheduledDepartureTime /= tfl_data[f].legs[1].departureTime
    /\ {journeys[k].first_leg.status : k \in 1..3} = {"Cancelled", "Delayed", "On Time"}

\* the 10-minute boundary nearest after the instant t, t itself excluded
NextBoundaryAfter(t) ==
    CHOOSE b \in (t + 1)..(t + 10) : (b % 60) % 10 = 0

\* C16: find_next_departures(count) returns count instants, each later
\* than london_now and on a minute divisible by 10; the first is the nearest
\* such boundary after london_now plus one minute (ten minutes on when that
\* minute is itself a boundary) and each next one is 10 minutes later.
C16_NextDepartures ==
    (harvester = "MockRailData" /\ pc /= "find_departures") =>
        /\ Len(src_departures) = wanted
        /\ \A k \in 1..Len(src_departures) :
               /\ src_departures[k] > london_now
               /\ (src_departures[k] % 60) % 10 = 0
        /\ wanted >= 1 => src_departures[1] = NextBoundaryAfter(london_now + 1)
        /\ \A k \in 1..(Len(src_departures) - 1) :
               src_departures[k + 1] = src_departures[k] + 10

\* asked at 23:59 for MaxCount departures: 00:00 is a boundary, so the first
\* is 00:10 of the next day
C16_Witness ==
    /\ harvester = "MockRailData"
    /\ pc = "find_journeys"
    /\ london_now = MinutesPerDay - 1
    /\ wanted = MaxCount
    /\ Len(src_departures) = MaxCount
    /\ src_departures[1] = MinutesPerDay + 10

Snapshots == data_file.snapshots

\* C17: starting from a file that holds a list, an invocation of
\* fetch_and_save leaves the snapshots it found as they were and in order
\* and adds one at the end, whether the fetch succeeded or failed; the one
\* a failed fetch adds has status Error, no services and serviceCount 0;
\* in every snapshot of the file serviceCount is the number of services.
C17_AppendOnly ==
    [][harvester = "data_fetch" =>
          LET new == data_file'.snapshots[Len(data_file'.snapshots)]
          IN  /\ data_file.kind = "list" =>
                     /\ data_file'.kind = "list"
                     /\ Len(data_file'.snapshots) = Len(Snapshots) + 1
                     /\ SubSeq(data_file'.snapshots, 1, Len(Snapshots)) = Snapshots
              /\ FetchFailure =>
                     new.status = "Error" /\ new.services = <<>> /\ new.serviceCount = 0
              /\ \A k \in 1..Len(data_file'.snapshots) :
                     data_file'.snapshots[k].serviceCount = Len(data_file'.snapshots[k].services)
      ]_vars

\* a history of a fetch with two services, a failed fetch and a fetch with
\* no service, in that order
C17_Witness ==
    /\ harvester = "data_fetch"
    /\ data_file.kind = "list"
    /\ Len(Snapshots) = 3
    /\ Snapshots[1].status = "Success" /\ Snapshots[1].serviceCount = 2
    /\ Snapshots[2].status = "Error" /\ Snapshots[2].serviceCount = 0
    /\ Snapshots[3].status = "Success" /\ Snapshots[3].services = <<>>

====
